---- MODULE Spec2Model ----
(***************************************************************************)
(* Model of Project-1/servidor.c: a concurrent TCP server that keeps a     *)
(* catalog of movies in a static array (movieList, movieCount), protects   *)
(* it with one mutex (movieMutex) and rewrites movies.csv after every      *)
(* mutation.  One handler thread (handleClient) runs per connection.       *)
(*                                                                         *)
(* C strings are sequences of one-character strings, so that the CSV       *)
(* formatting (fprintf) and parsing (fgets, strtok, atoi) are computed     *)
(* character by character.  The text a client sends never contains a line  *)
(* break (cliente.c readLine strips it) and stays far below the sizes of   *)
(* the C buffers.                                                          *)
(***************************************************************************)
EXTENDS Integers, Sequences, FiniteSets, TLC

\* ------------------------------------------------------------ bounds
\* MAX_MOVIES is 1000 in servidor.c:34; scaled down so that the
\* capacity branch of registerMovie is reached.
MAX_MOVIES == 2
\* Number of connections, each served by its own handleClient thread.
NumClients == 2
\* Non-zero operation codes the server reads in all, over all connections.
MaxRequests == 4

\* char line[512] of loadMoviesFromCSV.
LINE_SIZE == 512

Clients == 1..NumClients
\* Value of movieMutex when no thread owns it.
NoOwner == 0

VARIABLES
  movieList,    \* movieList[1..movieCount], a sequence of Movie records
  csvFile,      \* movies.csv: [exists, data], data a sequence of characters
  movieMutex,   \* owner of the mutex, or NoOwner
  pc,           \* per handler: position in handleClient
  option,       \* per handler: int option
  args,         \* per handler: the locals title, director, year, genres, id, newGenre, genre
  nread,        \* per handler: fields of the current request already received
  fieldFault,   \* per handler: some field recv of the current request returned <= 0
  response,     \* per handler: char response[]
  peer,         \* per connection: "open" or "closed" (the client's end)
  nreqs,        \* non-zero operation codes read so far, over all connections
  pre,          \* the catalog and the file as the store call in progress found them,
                \* and the outcome of fopen(filename, "w") should the call reach it
  unanswered,   \* per connection: non-zero operation codes read minus responses sent
  closes,       \* per connection: close(clientSocket) calls made
  consumed,     \* per handler: the fields of the current request received, in order
  rtPhase,      \* scenarios without connections: the step reached ("off" in a
                \* serving run; "init", "saved", "loaded" in the restart scenario)
  rtOrig        \* restart and removal scenarios: the catalog the scenario started from

vars == <<movieList, csvFile, movieMutex, pc, option, args, nread, fieldFault,
          response, peer, nreqs, pre, unanswered, closes, consumed, rtPhase, rtOrig>>

movieCount == Len(movieList)

\* ------------------------------------------------------------ C library
Min(S) == CHOOSE x \in S : \A y \in S : x <= y

IsDigit(ch) == ch \in {"0", "1", "2", "3", "4", "5", "6", "7", "8", "9"}

DigitVal(ch) ==
  CASE ch = "0" -> 0 [] ch = "1" -> 1 [] ch = "2" -> 2 [] ch = "3" -> 3
    [] ch = "4" -> 4 [] ch = "5" -> 5 [] ch = "6" -> 6 [] ch = "7" -> 7
    [] ch = "8" -> 8 [] ch = "9" -> 9

DigitChar(d) ==
  CASE d = 0 -> "0" [] d = 1 -> "1" [] d = 2 -> "2" [] d = 3 -> "3"
    [] d = 4 -> "4" [] d = 5 -> "5" [] d = 6 -> "6" [] d = 7 -> "7"
    [] d = 8 -> "8" [] d = 9 -> "9"

IsSpace(ch) == ch \in {" ", "\t", "\n", "\r"}

RECURSIVE SkipSpace(_)
SkipSpace(s) ==
  IF s # <<>> /\ IsSpace(Head(s)) THEN SkipSpace(Tail(s)) ELSE s

RECURSIVE ParseDigits(_, _)
ParseDigits(s, acc) ==
  IF s = <<>> \/ ~IsDigit(Head(s)) THEN acc
  ELSE ParseDigits(Tail(s), acc * 10 + DigitVal(Head(s)))

\* atoi: leading white space, an optional sign, then the leading digits;
\* 0 when there are none.
atoi(s) ==
  LET t == SkipSpace(s) IN
  IF t = <<>> THEN 0
  ELSE IF Head(t) = "-" THEN 0 - ParseDigits(Tail(t), 0)
  ELSE IF Head(t) = "+" THEN ParseDigits(Tail(t), 0)
  ELSE ParseDigits(t, 0)

RECURSIVE NatToStr(_)
NatToStr(n) ==
  IF n < 10 THEN <<DigitChar(n)>>
  ELSE NatToStr(n \div 10) \o <<DigitChar(n % 10)>>

\* printf's %d.
IntToStr(n) == IF n < 0 THEN <<"-">> \o NatToStr(0 - n) ELSE NatToStr(n)

\* ------------------------------------------------------------ persistence
\* One fprintf(file, "%d,%s,%s,%d,%s\n", ...) of saveMoviesToCSV.
FormatLine(m) ==
  IntToStr(m.id) \o <<",">> \o m.title \o <<",">> \o m.director \o <<",">>
    \o IntToStr(m.year) \o <<",">> \o m.genres \o <<"\n">>

RECURSIVE FormatAll(_)
FormatAll(list) ==
  IF list = <<>> THEN <<>> ELSE FormatLine(Head(list)) \o FormatAll(Tail(list))

\* The file opened with "a": the lines are added to those already there.
saveMoviesToCSV_Append(list, file, fopenOk) ==
  IF fopenOk THEN [exists |-> TRUE, data |-> file.data \o FormatAll(list)] ELSE file

\* saveMoviesToCSV: fopen(filename, "w") truncates; when it fails nothing
\* is written and the file stays as it was.
saveMoviesToCSV(list, file, fopenOk) ==
  IF fopenOk THEN [exists |-> TRUE, data |-> FormatAll(list)] ELSE file

\* fgets(line, sizeof(line), file): the number of characters it takes from d
\* (d is not empty): through the first newline, at most LINE_SIZE - 1.
FgetsLen(d) ==
  LET cap == IF Len(d) < LINE_SIZE - 1 THEN Len(d) ELSE LINE_SIZE - 1
      nl  == {j \in 1..cap : d[j] = "\n"}
  IN IF nl = {} THEN cap ELSE Min(nl)

\* strchr(line, '\n') and *newlinePos = '\0'.
StripNewline(line) ==
  LET nl == {j \in 1..Len(line) : line[j] = "\n"}
  IN IF nl = {} THEN line ELSE SubSeq(line, 1, Min(nl) - 1)

\* The successive results of strtok(line, ","), strtok(NULL, ","), ...:
\* strtok skips every leading delimiter, so an empty field yields no token.
RECURSIVE strtokAll(_)
strtokAll(s) ==
  IF s = <<>> THEN <<>>
  ELSE IF Head(s) = "," THEN strtokAll(Tail(s))
  ELSE LET commas == {j \in 1..Len(s) : s[j] = ","}
           n == IF commas = {} THEN Len(s) ELSE Min(commas) - 1
       IN <<SubSeq(s, 1, n)>> \o strtokAll(SubSeq(s, n + 2, Len(s)))

\* The loop without its test of movieCount against MAX_MOVIES.
RECURSIVE LoadLines_NoCap(_, _)
LoadLines_NoCap(d, list) ==
  IF d = <<>> THEN list
  ELSE LET n    == FgetsLen(d)
           rest == SubSeq(d, n + 1, Len(d))
           tok  == strtokAll(StripNewline(SubSeq(d, 1, n)))
       IN IF Len(tok) < 5 THEN LoadLines_NoCap(rest, list)
          ELSE LoadLines_NoCap(rest,
                 Append(list, [id |-> atoi(tok[1]), title |-> tok[2], director |-> tok[3],
                               year |-> atoi(tok[4]), genres |-> tok[5]]))

\* The body of the while loop of loadMoviesFromCSV on the rest of the file.
RECURSIVE LoadLines(_, _)
LoadLines(d, list) ==
  IF d = <<>> THEN list
  ELSE LET n    == FgetsLen(d)
           rest == SubSeq(d, n + 1, Len(d))
           tok  == strtokAll(StripNewline(SubSeq(d, 1, n)))
       IN IF Len(tok) < 5 THEN LoadLines(rest, list)
          ELSE LET m == [id |-> atoi(tok[1]), title |-> tok[2], director |-> tok[3],
                         year |-> atoi(tok[4]), genres |-> tok[5]]
                   l2 == Append(list, m)
               IN IF Len(l2) >= MAX_MOVIES THEN l2 ELSE LoadLines(rest, l2)

\* loadMoviesFromCSV: a missing file leaves the catalog as it is.
loadMoviesFromCSV(file, list) ==
  IF ~file.exists THEN list ELSE LoadLines(file.data, list)

\* ------------------------------------------------------------ catalog store
\* memset(response, 0, sizeof(response)).
NoResponse == [msg |-> "", id |-> 0, text |-> <<>>, rows |-> <<>>]

Reply(msg, id, text, rows) == [msg |-> msg, id |-> id, text |-> text, rows |-> rows]

\* The for loop of generateNewId.
RECURSIVE MaxIdFrom(_, _)
MaxIdFrom(list, maxId) ==
  IF list = <<>> THEN maxId
  ELSE MaxIdFrom(Tail(list), IF Head(list).id > maxId THEN Head(list).id ELSE maxId)

\* A generator that numbers by position: movieCount + 1.
generateNewId_Count(list) == Len(list) + 1

\* A generator that fills gaps: the smallest positive id no movie has.
generateNewId_FirstFree(list) ==
  Min({n \in 1..(Len(list) + 1) : \A k \in 1..Len(list) : list[k].id # n})

generateNewId(list) == MaxIdFrom(list, 0) + 1

\* A scan that starts at the second movie.
findMovieIndexById_SkipsFirst(list, id) ==
  LET hits == {i \in 2..Len(list) : list[i].id = id}
  IN IF hits = {} THEN -1 ELSE Min(hits)

\* findMovieIndexById: the first position holding id (positions count from 1
\* here, from 0 in C), or -1.
findMovieIndexById(list, id) ==
  LET hits == {i \in 1..Len(list) : list[i].id = id}
  IN IF hits = {} THEN -1 ELSE Min(hits)

\* The test with > for >=.
CapacityReached_OffByOne(count) == count > MAX_MOVIES

\* if (movieCount >= MAX_MOVIES) of registerMovie.
CapacityReached(count) == count >= MAX_MOVIES

\* A create that takes the movie back and reports an error when the file
\* cannot be written.
registerMovie_Rollback(list, file, title, director, year, genres, fopenOk) ==
  IF CapacityReached(Len(list))
  THEN [list |-> list, file |-> file, response |-> Reply("Full", 0, <<>>, <<>>)]
  ELSE LET newId == generateNewId(list)
           l2 == Append(list, [id |-> newId, title |-> title, director |-> director,
                               year |-> year, genres |-> genres])
       IN IF fopenOk
          THEN [list |-> l2, file |-> saveMoviesToCSV(l2, file, fopenOk),
                response |-> Reply("Registered", newId, <<>>, <<>>)]
          ELSE [list |-> list, file |-> file, response |-> Reply("SaveFailed", 0, <<>>, <<>>)]

\* (1) registerMovie.
registerMovie(list, file, title, director, year, genres, fopenOk) ==
  IF CapacityReached(Len(list))
  THEN [list |-> list, file |-> file, response |-> Reply("Full", 0, <<>>, <<>>)]
  ELSE LET newId == generateNewId(list)
           l2 == Append(list, [id |-> newId, title |-> title, director |-> director,
                               year |-> year, genres |-> genres])
       IN [list |-> l2, file |-> saveMoviesToCSV(l2, file, fopenOk),
           response |-> Reply("Registered", newId, <<>>, <<>>)]

\* Both parts appended: a ';' even after an empty string.
GenresAfterAdd_AlwaysDelimiter(genres, newGenre) == genres \o <<";">> \o newGenre

\* Lines 212-216 of addGenreToMovie: strcat(genres, ";") when genres is not
\* empty, then strcpy(genres, newGenre), which overwrites the whole string.
GenresAfterAdd(genres, newGenre) ==
  LET afterStrcat == IF Len(genres) > 0 THEN genres \o <<";">> ELSE genres
      afterStrcpy == newGenre
  IN afterStrcpy

\* (2) addGenreToMovie.
addGenreToMovie(list, file, id, newGenre, fopenOk) ==
  LET index == findMovieIndexById(list, id) IN
  IF index = -1
  THEN [list |-> list, file |-> file, response |-> Reply("NotFound", id, <<>>, <<>>)]
  ELSE LET l2 == [list EXCEPT ![index].genres = GenresAfterAdd(@, newGenre)]
       IN [list |-> l2, file |-> saveMoviesToCSV(l2, file, fopenOk),
           response |-> Reply("GenreAdded", id, newGenre, <<>>)]

\* The copy without movieCount--.
SwapRemove_NoShrink(list, index) == [list EXCEPT ![index] = list[Len(list)]]

\* A removal that keeps the order: the later movies move up by one.
SwapRemove_Shift(list, index) ==
  [k \in 1..(Len(list) - 1) |-> IF k < index THEN list[k] ELSE list[k + 1]]

\* Lines 237-238 of removeMovie: the last movie is copied over the removed
\* one and movieCount is decremented.
SwapRemove(list, index) ==
  SubSeq([list EXCEPT ![index] = list[Len(list)]], 1, Len(list) - 1)

\* removeMovie without its saveMoviesToCSV.
removeMovie_NoSave(list, file, id, fopenOk) ==
  LET index == findMovieIndexById(list, id) IN
  IF index = -1
  THEN [list |-> list, file |-> file, response |-> Reply("NotExists", id, <<>>, <<>>)]
  ELSE [list |-> SwapRemove(list, index), file |-> file,
        response |-> Reply("Removed", id, <<>>, <<>>)]

\* removeMovie whose not-found branch does not return: the last movie goes.
removeMovie_MissDropsLast(list, file, id, fopenOk) ==
  LET index == findMovieIndexById(list, id)
      slot  == IF index = -1 THEN Len(list) ELSE index
      msg   == IF index = -1 THEN "NotExists" ELSE "Removed"
  IN IF list = <<>>
     THEN [list |-> list, file |-> file, response |-> Reply(msg, id, <<>>, <<>>)]
     ELSE LET l2 == SwapRemove(list, slot)
          IN [list |-> l2, file |-> saveMoviesToCSV(l2, file, fopenOk),
              response |-> Reply(msg, id, <<>>, <<>>)]

\* (3) removeMovie.
removeMovie(list, file, id, fopenOk) ==
  LET index == findMovieIndexById(list, id) IN
  IF index = -1
  THEN [list |-> list, file |-> file, response |-> Reply("NotExists", id, <<>>, <<>>)]
  ELSE LET l2 == SwapRemove(list, index)
       IN [list |-> l2, file |-> saveMoviesToCSV(l2, file, fopenOk),
           response |-> Reply("Removed", id, <<>>, <<>>)]

\* (4) listAllMoviesIds.
listAllMoviesIds(list, file) ==
  [list |-> list, file |-> file,
   response |-> IF Len(list) = 0 THEN Reply("Empty", 0, <<>>, <<>>)
                ELSE Reply("Ids", 0, <<>>,
                           [i \in 1..Len(list) |-> <<list[i].id, list[i].title>>])]

\* (5) listAllMoviesInfo.
listAllMoviesInfo(list, file) ==
  [list |-> list, file |-> file,
   response |-> IF Len(list) = 0 THEN Reply("Empty", 0, <<>>, <<>>)
                ELSE Reply("Infos", 0, <<>>, list)]

\* (6) listMovieById.
listMovieById(list, file, id) ==
  LET index == findMovieIndexById(list, id) IN
  [list |-> list, file |-> file,
   response |-> IF index = -1 THEN Reply("NotFound", id, <<>>, <<>>)
                ELSE Reply("Info", list[index].id, <<>>, <<list[index]>>)]

\* A match at the start of the string only, as strncmp would give.
strstrFound_Prefix(haystack, needle) ==
  /\ Len(needle) <= Len(haystack)
  /\ SubSeq(haystack, 1, Len(needle)) = needle

\* strstr(haystack, needle) != NULL.
strstrFound(haystack, needle) ==
  \E i \in 0..(Len(haystack) - Len(needle)) :
     SubSeq(haystack, i + 1, i + Len(needle)) = needle

\* SelectSeq with a two-argument test.
RECURSIVE MatchingGenre(_, _)
MatchingGenre(list, genre) ==
  IF list = <<>> THEN <<>>
  ELSE (IF strstrFound(Head(list).genres, genre) THEN <<Head(list)>> ELSE <<>>)
       \o MatchingGenre(Tail(list), genre)

\* A query that filters the catalog itself: only the matches stay.
listMoviesByGenre_FiltersInPlace(list, file, genre) ==
  [list |-> MatchingGenre(list, genre), file |-> file,
   response |-> IF Len(list) = 0 THEN Reply("Empty", 0, <<>>, <<>>)
                ELSE LET found == MatchingGenre(list, genre)
                     IN IF Len(found) = 0 THEN Reply("NoneOfGenre", 0, genre, <<>>)
                        ELSE Reply("OfGenre", 0, genre, found)]

\* (7) listMoviesByGenre.
listMoviesByGenre(list, file, genre) ==
  [list |-> list, file |-> file,
   response |-> IF Len(list) = 0 THEN Reply("Empty", 0, <<>>, <<>>)
                ELSE LET found == MatchingGenre(list, genre)
                     IN IF Len(found) = 0 THEN Reply("NoneOfGenre", 0, genre, <<>>)
                        ELSE Reply("OfGenre", 0, genre, found)]

\* ------------------------------------------------------------ the peers
\* What a client may send as an operation code: "0" to "7", an unknown
\* code and a text that is no number.
OptionMsgs ==
  {<<"0">>, <<"1">>, <<"2">>, <<"3">>, <<"4">>, <<"5">>, <<"6">>, <<"7">>,
   <<"9">>, <<"x">>}

\* What a client may send for each field of a request.
FieldMsgs(f) ==
  CASE f = "title"    -> {<<"t">>}
    [] f = "director" -> {<<"d">>}
    [] f = "year"     -> {<<"1", "9">>}
    [] f = "genres"   -> {<<"a">>}
    [] f = "id"       -> {<<"1">>, <<"2">>}
    [] f = "newGenre" -> {<<"b">>}
    [] f = "genre"    -> {<<"a">>}

\* recv(clientSocket, buffer, sizeof(buffer), 0) on a zeroed buffer: a
\* message of the peer, or a result <= 0 with the buffer left empty, because
\* the peer has closed its end (now or before) or the connection failed.
\* After such a result every later recv on the connection fails too.
Recv(c, msgs) ==
  {[ok |-> FALSE, buffer |-> <<>>]}
    \cup (IF peer[c] = "closed" THEN {} ELSE {[ok |-> TRUE, buffer |-> m] : m \in msgs})

\* ------------------------------------------------------------ handleClient
\* The locals of the case blocks, before any of them is written.
NoArgs ==
  [title |-> <<>>, director |-> <<>>, year |-> 0, genres |-> <<>>,
   id |-> 0, newGenre |-> <<>>, genre |-> <<>>]

\* Case 2 with its two reads exchanged.
Fields_GenreBeforeId(opt) ==
  CASE opt = 1 -> <<"title", "director", "year", "genres">>
    [] opt = 2 -> <<"newGenre", "id">>
    [] opt = 3 -> <<"id">>
    [] opt = 6 -> <<"id">>
    [] opt = 7 -> <<"genre">>
    [] OTHER   -> <<>>

\* The fields each case of the switch receives, in order.
Fields(opt) ==
  CASE opt = 1 -> <<"title", "director", "year", "genres">>
    [] opt = 2 -> <<"id", "newGenre">>
    [] opt = 3 -> <<"id">>
    [] opt = 6 -> <<"id">>
    [] opt = 7 -> <<"genre">>
    [] OTHER   -> <<>>

\* strcpy(title, buffer), year = atoi(buffer), ...
StoreField(a, f, buffer) ==
  CASE f = "title"    -> [a EXCEPT !.title = buffer]
    [] f = "director" -> [a EXCEPT !.director = buffer]
    [] f = "year"     -> [a EXCEPT !.year = atoi(buffer)]
    [] f = "genres"   -> [a EXCEPT !.genres = buffer]
    [] f = "id"       -> [a EXCEPT !.id = atoi(buffer)]
    [] f = "newGenre" -> [a EXCEPT !.newGenre = buffer]
    [] f = "genre"    -> [a EXCEPT !.genre = buffer]

\* A switch whose default branch sends nothing.
AfterOption_SilentDefault(opt) ==
  IF opt \in 1..7 THEN (IF Fields(opt) = <<>> THEN "lock" ELSE "field") ELSE "option"

\* Where the switch goes once the option is known.
AfterOption(opt) ==
  IF opt \in 1..7 THEN (IF Fields(opt) = <<>> THEN "lock" ELSE "field") ELSE "send"

\* Lines 356-369 and the head of the switch: the handler reads the option.
\* msgs are the codes the peer may send, budget the number of non-zero codes
\* the peers may send in all.
HC_RecvOption(c, msgs, budget) ==
  /\ pc[c] = "option"
  /\ \E r \in Recv(c, msgs) :
       LET opt == atoi(r.buffer) IN
       /\ (r.ok /\ opt # 0) => nreqs < budget
       /\ IF ~r.ok \/ opt = 0
          THEN /\ pc' = [pc EXCEPT ![c] = "close"]
               /\ peer' = [peer EXCEPT ![c] = IF r.ok THEN @ ELSE "closed"]
               /\ UNCHANGED <<option, nreqs, response, unanswered>>
          ELSE /\ option' = [option EXCEPT ![c] = opt]
               /\ nreqs' = nreqs + 1
               /\ unanswered' = [unanswered EXCEPT ![c] = @ + 1]
               /\ pc' = [pc EXCEPT ![c] = AfterOption(opt)]
               /\ response' = [response EXCEPT ![c] =
                                 IF opt \in 1..7 THEN NoResponse
                                 ELSE Reply("Invalid", 0, <<>>, <<>>)]
               /\ UNCHANGED peer
  /\ UNCHANGED <<movieList, csvFile, movieMutex, args, nread, fieldFault,
                 pre, closes, rtPhase, rtOrig, consumed>>

\* One memset(buffer) + recv + copy of a case block.  The result of recv is
\* not looked at: on a failure the field is the empty buffer.
HC_RecvField(c) ==
  /\ pc[c] = "field"
  /\ LET fs == Fields(option[c])
         f  == fs[nread[c] + 1]
     IN \E r \in Recv(c, FieldMsgs(f)) :
          /\ args' = [args EXCEPT ![c] = StoreField(@, f, r.buffer)]
          /\ fieldFault' = [fieldFault EXCEPT ![c] = @ \/ ~r.ok]
          /\ peer' = [peer EXCEPT ![c] = IF r.ok THEN @ ELSE "closed"]
          /\ nread' = [nread EXCEPT ![c] = @ + 1]
          /\ consumed' = [consumed EXCEPT ![c] = Append(@, f)]
          /\ pc' = [pc EXCEPT ![c] = IF nread[c] + 1 = Len(fs) THEN "lock" ELSE "field"]
  /\ UNCHANGED <<movieList, csvFile, movieMutex, option, response, nreqs,
                 pre, unanswered, closes, rtPhase, rtOrig>>

\* No store call is in progress.
NoCall == [list |-> <<>>, file |-> [exists |-> FALSE, data |-> <<>>], fopenOk |-> TRUE]

\* A lock that never waits.
MutexAvailable_Always(owner) == TRUE

\* pthread_mutex_lock returns once no thread owns the mutex.
MutexAvailable(owner) == owner = NoOwner

\* A handler that may take the mutex before it reads the fields of the
\* request and keeps it while it reads them.
HC_Lock_WhileReading(c) ==
  /\ \/ pc[c] = "lock" /\ (MutexAvailable(movieMutex) \/ movieMutex = c)
     \/ pc[c] = "field" /\ nread[c] = 0 /\ MutexAvailable(movieMutex)
  /\ movieMutex' = c
  /\ pc' = [pc EXCEPT ![c] = IF pc[c] = "lock" THEN "store" ELSE "field"]
  /\ UNCHANGED <<movieList, csvFile, option, args, nread, fieldFault, response,
                 peer, nreqs, pre, unanswered, closes, rtPhase, rtOrig, consumed>>

\* pthread_mutex_lock(&movieMutex).
HC_Lock(c) ==
  /\ pc[c] = "lock"
  /\ MutexAvailable(movieMutex)
  /\ movieMutex' = c
  /\ pc' = [pc EXCEPT ![c] = "store"]
  /\ UNCHANGED <<movieList, csvFile, option, args, nread, fieldFault, response,
                 peer, nreqs, pre, unanswered, closes, rtPhase, rtOrig, consumed>>

\* The call each case makes between lock and unlock.
StoreCall(opt, a, list, file, fopenOk) ==
  CASE opt = 1 -> registerMovie(list, file, a.title, a.director, a.year, a.genres, fopenOk)
    [] opt = 2 -> addGenreToMovie(list, file, a.id, a.newGenre, fopenOk)
    [] opt = 3 -> removeMovie(list, file, a.id, fopenOk)
    [] opt = 4 -> listAllMoviesIds(list, file)
    [] opt = 5 -> listAllMoviesInfo(list, file)
    [] opt = 6 -> listMovieById(list, file, a.id)
    [] opt = 7 -> listMoviesByGenre(list, file, a.genre)

\* A case block that leaves for the send, past its unlock, when the store
\* call reports an error.
HC_Call_ErrorSkipsUnlock(c, fopens) ==
  /\ pc[c] = "store"
  /\ \E fopenOk \in fopens :
       LET r == StoreCall(option[c], args[c], movieList, csvFile, fopenOk) IN
       /\ movieList' = r.list
       /\ csvFile' = r.file
       /\ response' = [response EXCEPT ![c] = r.response]
       /\ pre' = [list |-> movieList, file |-> csvFile, fopenOk |-> fopenOk]
       /\ pc' = [pc EXCEPT ![c] =
                   IF r.response.msg \in {"Full", "NotFound", "NotExists", "Empty"}
                   THEN "send" ELSE "unlock"]
  /\ UNCHANGED <<movieMutex, option, args, nread, fieldFault, peer, nreqs,
                 unanswered, closes, rtPhase, rtOrig, consumed>>

\* The store call of the case, with the save it makes; fopens are the
\* outcomes fopen(filename, "w") may have.
HC_Call(c, fopens) ==
  /\ pc[c] = "store"
  /\ \E fopenOk \in fopens :
       LET r == StoreCall(option[c], args[c], movieList, csvFile, fopenOk) IN
       /\ movieList' = r.list
       /\ csvFile' = r.file
       /\ response' = [response EXCEPT ![c] = r.response]
       /\ pre' = [list |-> movieList, file |-> csvFile, fopenOk |-> fopenOk]
  /\ pc' = [pc EXCEPT ![c] = "unlock"]
  /\ UNCHANGED <<movieMutex, option, args, nread, fieldFault, peer, nreqs,
                 unanswered, closes, rtPhase, rtOrig, consumed>>

\* A case block without its pthread_mutex_unlock.
HC_Unlock_NoRelease(c) ==
  /\ pc[c] = "unlock"
  /\ pre' = NoCall
  /\ pc' = [pc EXCEPT ![c] = "send"]
  /\ UNCHANGED <<movieList, csvFile, movieMutex, option, args, nread, fieldFault,
                 response, peer, nreqs, unanswered, closes, rtPhase, rtOrig, consumed>>

\* pthread_mutex_unlock(&movieMutex).
HC_Unlock(c) ==
  /\ pc[c] = "unlock"
  /\ movieMutex' = NoOwner
  /\ pre' = NoCall
  /\ pc' = [pc EXCEPT ![c] = "send"]
  /\ UNCHANGED <<movieList, csvFile, option, args, nread, fieldFault, response,
                 peer, nreqs, unanswered, closes, rtPhase, rtOrig, consumed>>

\* send(clientSocket, response, ...), the end of the case block and the two
\* memsets at the top of the loop.  With oneShot the peer closes its end once
\* it has its response.
HC_Send(c, oneShot) ==
  /\ pc[c] = "send"
  /\ pc' = [pc EXCEPT ![c] = "option"]
  /\ option' = [option EXCEPT ![c] = 0]
  /\ args' = [args EXCEPT ![c] = NoArgs]
  /\ nread' = [nread EXCEPT ![c] = 0]
  /\ fieldFault' = [fieldFault EXCEPT ![c] = FALSE]
  /\ response' = [response EXCEPT ![c] = NoResponse]
  /\ peer' = [peer EXCEPT ![c] = IF oneShot THEN "closed" ELSE @]
  /\ unanswered' = [unanswered EXCEPT ![c] = @ - 1]
  /\ consumed' = [consumed EXCEPT ![c] = <<>>]
  /\ UNCHANGED <<movieList, csvFile, movieMutex, nreqs, pre, closes, rtPhase, rtOrig>>

\* A close inside the loop: the handler goes on to read the next option.
HC_Close_Loops(c) ==
  /\ pc[c] = "close"
  /\ pc' = [pc EXCEPT ![c] = "option"]
  /\ peer' = [peer EXCEPT ![c] = "closed"]
  /\ closes' = [closes EXCEPT ![c] = @ + 1]
  /\ UNCHANGED <<movieList, csvFile, movieMutex, option, args, nread, fieldFault,
                 response, nreqs, pre, unanswered, rtPhase, rtOrig, consumed>>

\* close(clientSocket); pthread_exit(NULL).  The connection is gone for the
\* peer too.
HC_Close(c) ==
  /\ pc[c] = "close"
  /\ pc' = [pc EXCEPT ![c] = "done"]
  /\ peer' = [peer EXCEPT ![c] = "closed"]
  /\ closes' = [closes EXCEPT ![c] = @ + 1]
  /\ UNCHANGED <<movieList, csvFile, movieMutex, option, args, nread, fieldFault,
                 response, nreqs, pre, unanswered, rtPhase, rtOrig, consumed>>

handleClient(c, msgs, budget, fopens, oneShot) ==
  \/ HC_RecvOption(c, msgs, budget)
  \/ HC_RecvField(c)
  \/ HC_Lock(c)
  \/ HC_Call(c, fopens)
  \/ HC_Unlock(c)
  \/ HC_Send(c, oneShot)
  \/ HC_Close(c)

\* ------------------------------------------------------------ specifications
\* main: no movies.csv yet, so loadMoviesFromCSV leaves the catalog empty;
\* every connection is accepted and its handler waits for the first option.
Init ==
  /\ csvFile = [exists |-> FALSE, data |-> <<>>]
  /\ movieList = loadMoviesFromCSV(csvFile, <<>>)
  /\ movieMutex = NoOwner
  /\ pc = [c \in Clients |-> "option"]
  /\ option = [c \in Clients |-> 0]
  /\ args = [c \in Clients |-> NoArgs]
  /\ nread = [c \in Clients |-> 0]
  /\ fieldFault = [c \in Clients |-> FALSE]
  /\ response = [c \in Clients |-> NoResponse]
  /\ peer = [c \in Clients |-> "open"]
  /\ nreqs = 0
  /\ pre = NoCall
  /\ unanswered = [c \in Clients |-> 0]
  /\ closes = [c \in Clients |-> 0]
  /\ consumed = [c \in Clients |-> <<>>]
  /\ rtPhase = "off"
  /\ rtOrig = <<>>

\* Any request on any connection; movies.csv can be opened for writing.
Next ==
  \E c \in Clients :
    handleClient(c, OptionMsgs, MaxRequests, {TRUE}, FALSE)

Spec == Init /\ [][Next]_vars

\* Every connection issues at most one request, a create (code 1), and the
\* peer closes once it has the response; at most MAX_MOVIES creates in all.
NextCreates ==
  \E c \in Clients :
    handleClient(c, {<<"1">>}, MAX_MOVIES, {TRUE}, TRUE)

SpecCreates == Init /\ [][NextCreates]_vars

\* Non-zero operation codes read in all, over all connections, in the runs
\* where movies.csv may be unwritable.
MaxFairRequests == 2

\* Any request on any connection; fopen(filename, "w") may fail.
NextFair ==
  \E c \in Clients :
    handleClient(c, OptionMsgs, MaxFairRequests, {TRUE, FALSE}, FALSE)

\* Fair scheduling of the handler threads: a thread that can run a step of
\* its own code (the store call, unlock, send, close) runs it, and a thread
\* in pthread_mutex_lock gets the mutex if it is free again and again.
\* Nothing makes a peer send: a recv may wait for ever.
Fairness ==
  \A c \in Clients :
    /\ WF_vars(HC_Call(c, {TRUE, FALSE}))
    /\ WF_vars(HC_Unlock(c))
    /\ WF_vars(HC_Send(c, FALSE))
    /\ WF_vars(HC_Close(c))
    /\ SF_vars(HC_Lock(c))

SpecFair == Init /\ [][NextFair]_vars /\ Fairness

\* ------------------------------------------------------------ restart
\* The text fields and numbers of the catalogs the restart scenario starts
\* from; one title holds the field delimiter.
RTRecords ==
  {[id |-> i, title |-> t, director |-> d, year |-> y, genres |-> g] :
     i \in {1, 12}, t \in {<<>>, <<"t">>, <<"t", ",", "u">>}, d \in {<<>>, <<"d">>},
     y \in {0, 19, -5}, g \in {<<>>, <<"a", ";", "b">>}}

RECURSIVE SeqsUpTo(_, _)
SeqsUpTo(S, n) ==
  IF n = 0 THEN {<<>>}
  ELSE LET shorter == SeqsUpTo(S, n - 1)
       IN shorter \cup {Append(q, x) : q \in shorter, x \in S}

\* A server holding some catalog; no connection is open.
InitRoundTrip ==
  /\ rtOrig \in SeqsUpTo(RTRecords, MAX_MOVIES)
  /\ movieList = rtOrig
  /\ rtPhase = "init"
  /\ csvFile = [exists |-> FALSE, data |-> <<>>]
  /\ movieMutex = NoOwner
  /\ pc = [c \in Clients |-> "done"]
  /\ option = [c \in Clients |-> 0]
  /\ args = [c \in Clients |-> NoArgs]
  /\ nread = [c \in Clients |-> 0]
  /\ fieldFault = [c \in Clients |-> FALSE]
  /\ response = [c \in Clients |-> NoResponse]
  /\ peer = [c \in Clients |-> "closed"]
  /\ nreqs = 0
  /\ pre = NoCall
  /\ unanswered = [c \in Clients |-> 0]
  /\ closes = [c \in Clients |-> 0]
  /\ consumed = [c \in Clients |-> <<>>]

\* saveMoviesToCSV(CSV_FILE_NAME) writes the catalog; the process then ends.
RT_Save ==
  /\ rtPhase = "init"
  /\ csvFile' = saveMoviesToCSV(movieList, csvFile, TRUE)
  /\ movieList' = <<>>
  /\ rtPhase' = "saved"
  /\ UNCHANGED <<movieMutex, pc, option, args, nread, fieldFault, response, peer,
                 nreqs, pre, unanswered, closes, rtOrig, consumed>>

\* A new process: main calls loadMoviesFromCSV(CSV_FILE_NAME) with
\* movieCount = 0.
RT_Load ==
  /\ rtPhase = "saved"
  /\ movieList' = loadMoviesFromCSV(csvFile, <<>>)
  /\ rtPhase' = "loaded"
  /\ UNCHANGED <<csvFile, movieMutex, pc, option, args, nread, fieldFault, response,
                 peer, nreqs, pre, unanswered, closes, rtOrig, consumed>>

NextRoundTrip == RT_Save \/ RT_Load

SpecRoundTrip == InitRoundTrip /\ [][NextRoundTrip]_vars

\* ------------------------------------------------------------ start on a file
\* Non-zero operation codes read in all by a server started on a file.
MaxLoadedRequests == 2

\* The lines of the files a server may find at its start: "1,t,d,19,a", a
\* well-formed record, and "x", which has too few fields.
FileLines ==
  {<<"1", ",", "t", ",", "d", ",", "1", "9", ",", "a", "\n">>, <<"x", "\n">>}

RECURSIVE Flatten(_)
Flatten(ls) == IF ls = <<>> THEN <<>> ELSE Head(ls) \o Flatten(Tail(ls))

\* movies.csv at the start: missing, or any of the lines above, up to two
\* more than the catalog has room for.
StartFiles ==
  {[exists |-> FALSE, data |-> <<>>]}
    \cup {[exists |-> TRUE, data |-> Flatten(ls)] :
            ls \in SeqsUpTo(FileLines, MAX_MOVIES + 2)}

\* main on some movies.csv: loadMoviesFromCSV fills the catalog, then the
\* connections are accepted.
InitLoaded ==
  /\ csvFile \in StartFiles
  /\ movieList = loadMoviesFromCSV(csvFile, <<>>)
  /\ movieMutex = NoOwner
  /\ pc = [c \in Clients |-> "option"]
  /\ option = [c \in Clients |-> 0]
  /\ args = [c \in Clients |-> NoArgs]
  /\ nread = [c \in Clients |-> 0]
  /\ fieldFault = [c \in Clients |-> FALSE]
  /\ response = [c \in Clients |-> NoResponse]
  /\ peer = [c \in Clients |-> "open"]
  /\ nreqs = 0
  /\ pre = NoCall
  /\ unanswered = [c \in Clients |-> 0]
  /\ closes = [c \in Clients |-> 0]
  /\ consumed = [c \in Clients |-> <<>>]
  /\ rtPhase = "off"
  /\ rtOrig = <<>>

\* Creates, removes and the terminate code on any connection.
NextLoaded ==
  \E c \in Clients :
    handleClient(c, {<<"0">>, <<"1">>, <<"3">>}, MaxLoadedRequests, {TRUE}, FALSE)

SpecLoaded == InitLoaded /\ [][NextLoaded]_vars

\* ------------------------------------------------------------ store scenarios
\* The state of a server without connections: the mutex free, no handler.
Idle ==
  /\ movieMutex = NoOwner
  /\ pc = [c \in Clients |-> "done"]
  /\ option = [c \in Clients |-> 0]
  /\ nread = [c \in Clients |-> 0]
  /\ fieldFault = [c \in Clients |-> FALSE]
  /\ response = [c \in Clients |-> NoResponse]
  /\ peer = [c \in Clients |-> "closed"]
  /\ nreqs = 0
  /\ pre = NoCall
  /\ unanswered = [c \in Clients |-> 0]
  /\ closes = [c \in Clients |-> 0]
  /\ consumed = [c \in Clients |-> <<>>]

\* The arguments of the create of the scenario; args[1] holds them, and the
\* id the create returns once it has.
ScArgs ==
  {[NoArgs EXCEPT !.title = t, !.director = d, !.year = y, !.genres = g] :
     t \in {<<>>, <<"t">>, <<"t", ",", "u">>}, d \in {<<>>, <<"d">>},
     y \in {0, 2010, -5}, g \in {<<>>, <<"a">>, <<"a", ";", "b">>}}

\* An empty catalog, no movies.csv.
InitScenario ==
  /\ Idle
  /\ movieList = <<>>
  /\ csvFile = [exists |-> FALSE, data |-> <<>>]
  /\ \E a \in ScArgs : args = [c \in Clients |-> a]
  /\ rtPhase = "sc_init"
  /\ rtOrig = <<>>

\* One store call of the scenario, made as handleClient makes it: on the
\* catalog and the file, the answer written to response.
ScCall(from, to, opt, keepId) ==
  /\ rtPhase = from
  /\ \E fopenOk \in {TRUE, FALSE} :
       LET r == StoreCall(opt, args[1], movieList, csvFile, fopenOk) IN
       /\ movieList' = r.list
       /\ csvFile' = r.file
       /\ response' = [response EXCEPT ![1] = r.response]
       /\ args' = IF keepId THEN [args EXCEPT ![1].id = r.response.id] ELSE args
  /\ rtPhase' = to
  /\ UNCHANGED <<movieMutex, pc, option, nread, fieldFault, peer, nreqs, pre,
                 unanswered, closes, rtOrig, consumed>>

\* registerMovie(title, director, year, genres); the id of the answer is the
\* id of the later calls.
Sc_Create == ScCall("sc_init", "sc_created", 1, TRUE)

\* listMovieById(id).
Sc_Find == ScCall("sc_created", "sc_found", 6, FALSE)

\* removeMovie(id).
Sc_Remove == ScCall("sc_found", "sc_removed", 3, FALSE)

\* listMovieById(id) once more.
Sc_FindAgain == ScCall("sc_removed", "sc_gone", 6, FALSE)

NextScenario == Sc_Create \/ Sc_Find \/ Sc_Remove \/ Sc_FindAgain

SpecScenario == InitScenario /\ [][NextScenario]_vars

\* The genres of the catalogs the genre query is run on: "Comedy;Drama",
\* "Romantic-Comedy", "Drama" and the empty string.
QGenres ==
  {<<"C", "o", "m", "e", "d", "y", ";", "D", "r", "a", "m", "a">>,
   <<"R", "o", "m", "a", "n", "t", "i", "c", "-", "C", "o", "m", "e", "d", "y">>,
   <<"D", "r", "a", "m", "a">>,
   <<>>}

\* The texts asked for: "Com", "Drama", "y;D", "Action" and the empty string.
QQueries ==
  {<<"C", "o", "m">>, <<"D", "r", "a", "m", "a">>, <<"y", ";", "D">>,
   <<"A", "c", "t", "i", "o", "n">>, <<>>}

\* A catalog of up to MAX_MOVIES movies, in any order of their genres, and
\* the genre one client asks for.
InitQuery ==
  /\ Idle
  /\ \E gs \in SeqsUpTo(QGenres, MAX_MOVIES) :
       movieList = [i \in 1..Len(gs) |->
                      [id |-> 2 * i, title |-> <<"t">>, director |-> <<"d">>,
                       year |-> 19, genres |-> gs[i]]]
  /\ csvFile = [exists |-> FALSE, data |-> <<>>]
  /\ \E g \in QQueries : args = [c \in Clients |-> [NoArgs EXCEPT !.genre = g]]
  /\ rtPhase = "q_init"
  /\ rtOrig = <<>>

\* listMoviesByGenre(genre).
Q_ListByGenre == ScCall("q_init", "q_listed", 7, FALSE)

NextQuery == Q_ListByGenre

SpecQuery == InitQuery /\ [][NextQuery]_vars

\* Longest catalog removeMovie is applied to on its own.  removeMovie does
\* not read MAX_MOVIES; the catalogs are within the 1000 of servidor.c:34.
MaxRemoveLen == 3

\* The movies of those catalogs: ids may repeat, as in a catalog loaded
\* from a file.
RmRecords ==
  {[id |-> i, title |-> t, director |-> <<"d">>, year |-> 19, genres |-> <<"a">>] :
     i \in 1..MaxRemoveLen, t \in {<<"t">>, <<"u">>}}

\* Some catalog and the id one client asks to remove.
InitRemove ==
  /\ Idle
  /\ movieList \in SeqsUpTo(RmRecords, MaxRemoveLen)
  /\ rtOrig = movieList
  /\ csvFile = [exists |-> FALSE, data |-> <<>>]
  /\ \E i \in 1..(MaxRemoveLen + 1) : args = [c \in Clients |-> [NoArgs EXCEPT !.id = i]]
  /\ rtPhase = "rm_init"

\* removeMovie(id).
Rm_Remove == ScCall("rm_init", "rm_done", 3, FALSE)

NextRemove == Rm_Remove

SpecRemove == InitRemove /\ [][NextRemove]_vars

\* ------------------------------------------------------------ properties
AllDone == \A c \in Clients : pc[c] = "done"

Ids(list) == {list[i].id : i \in 1..Len(list)}

\* The number of lines of a text file: its newline characters.
LineCount(file) == Cardinality({j \in 1..Len(file.data) : file.data[j] = "\n"})

\* The step is handler c's store call (with the save it makes).
CallStep(c) == pc[c] = "store" /\ pc'[c] = "unlock"

\* C1: when N <= MAX_MOVIES handlers each issue one create concurrently on
\* an empty catalog, then in every interleaving, once all handlers have
\* ended, the catalog holds exactly N records, their ids are exactly 1..N,
\* and movies.csv holds exactly N lines.  (Under SpecCreates a connection
\* issues at most one create, so nreqs is N.)
C1_ConcurrentCreates ==
  AllDone =>
    /\ Len(movieList) = nreqs
    /\ Ids(movieList) = 1..nreqs
    /\ LineCount(csvFile) = nreqs

\* Every handler has issued its create and ended.
C1_Witness ==
  AllDone /\ nreqs = NumClients /\ Len(movieList) = NumClients

\* C2: mutual exclusion.  At most one handler is between lock and unlock,
\* and that handler owns movieMutex; every store call (the only code that
\* reads or writes movieList, movieCount and movies.csv) is made by the
\* owner of the mutex, and a step that changes the catalog or the file is
\* the store call of exactly that handler, so two saves never interleave.
C2_MutualExclusion ==
  /\ [](\A c, d \in Clients :
          /\ (pc[c] \in {"store", "unlock"} /\ pc[d] \in {"store", "unlock"}) => c = d
          /\ pc[c] \in {"store", "unlock"} => movieMutex = c)
  /\ [][/\ \A c \in Clients : CallStep(c) => movieMutex = c
        /\ (movieList' # movieList \/ csvFile' # csvFile) =>
             \E c \in Clients : CallStep(c) /\ movieMutex = c]_vars

\* One handler is inside the store call while another waits for the mutex.
C2_Witness ==
  \E c, d \in Clients : c # d /\ pc[c] = "store" /\ pc[d] = "lock"

\* C3: from an empty catalog, after any interleaving of create, remove and
\* addGenre requests, the records of the catalog have pairwise distinct ids.
C3_UniqueIds ==
  \A i, j \in 1..Len(movieList) : movieList[i].id = movieList[j].id => i = j

\* Two records, one of them created after a removal (id 3 with capacity for
\* fewer records at a time needs a removal before it).
C3_Witness ==
  /\ Len(movieList) = 2
  /\ Ids(movieList) = {2, 3}

\* Handler c has made its store call and has not unlocked yet: pre holds
\* the catalog and the file the call found, movieList and csvFile what it
\* left.
Called(c) == pc[c] = "unlock"

\* C4: a create on a catalog below capacity appends, after all existing
\* records, a record with the fields received and the id (maximum existing
\* id) + 1, or 1 for an empty catalog, and answers with that id.
C4_ExpectedId(list) ==
  IF list = <<>> THEN 1
  ELSE (CHOOSE m \in Ids(list) : \A x \in Ids(list) : x <= m) + 1

C5_CapacityEnforced ==
  \A c \in Clients :
    /\ (Called(c) /\ option[c] = 1 /\ Len(pre.list) >= MAX_MOVIES) =>
         /\ movieList = pre.list
         /\ csvFile = pre.file
         /\ response[c].msg = "Full"
    /\ response[c].msg = "Full" => pc[c] \in {"unlock", "send"}

\* The refused create has left a full catalog and its handler is about to
\* send the answer.
C5_Witness ==
  \E c \in Clients :
    /\ pc[c] = "send" /\ option[c] = 1 /\ response[c].msg = "Full"
    /\ Len(movieList) = MAX_MOVIES

\* C6: addGenre on an existing record whose genres are not empty appends:
\* the genres become the previous genres, then ';', then the new genre.
C6_AddGenreAppends ==
  \A c \in Clients : \A i \in 1..Len(pre.list) :
    (Called(c) /\ option[c] = 2 /\ pre.list[i].id = args[c].id
       /\ pre.list[i].genres # <<>>) =>
      /\ Len(movieList) = Len(pre.list)
      /\ movieList[i].genres = pre.list[i].genres \o <<";">> \o args[c].newGenre

\* C7: addGenre on an existing record whose genres are empty sets them to
\* exactly the new genre, with no leading ';'.
C7_AddGenreOnEmpty ==
  \A c \in Clients : \A i \in 1..Len(pre.list) :
    (Called(c) /\ option[c] = 2 /\ pre.list[i].id = args[c].id
       /\ pre.list[i].genres = <<>>) =>
      /\ Len(movieList) = Len(pre.list)
      /\ movieList[i].genres = args[c].newGenre

\* addGenre has given the genre "b" to a record that had none.
C7_Witness ==
  \E c \in Clients : \E i \in 1..Len(pre.list) :
    /\ Called(c) /\ option[c] = 2
    /\ pre.list[i].id = args[c].id
    /\ pre.list[i].genres = <<>>
    /\ args[c].newGenre = <<"b">>
    /\ movieList[i].genres = <<"b">>
    /\ response[c].msg = "GenreAdded"

\* C8: when a field read of a request fails (the peer is gone), the handler
\* ends its loop without a store call, so the catalog and movies.csv are
\* the same as before the request: no store call of a request with a failed
\* field read leaves the catalog or the file changed.
C8_FaultAbortsRequest ==
  \A c \in Clients :
    (fieldFault[c] /\ Called(c)) => (movieList = pre.list /\ csvFile = pre.file)

\* What fprintf writes for one record, without the line break.
C9_Line(m) ==
  IntToStr(m.id) \o <<",">> \o m.title \o <<",">> \o m.director \o <<",">>
    \o IntToStr(m.year) \o <<",">> \o m.genres

\* The lines of a text, each ended by a line break.
RECURSIVE C9_Lines(_, _)
C9_Lines(data, line) ==
  IF data = <<>> THEN (IF line = <<>> THEN <<>> ELSE <<line>>)
  ELSE IF Head(data) = "\n" THEN <<line>> \o C9_Lines(Tail(data), <<>>)
  ELSE C9_Lines(Tail(data), Append(line, Head(data)))

\* C9: from an empty catalog, with movies.csv always writable, whenever no
\* handler owns the mutex the file holds exactly one line per record of the
\* catalog, in catalog order, with that record's id, title, director, year
\* and genres: every create, remove and addGenre that succeeds has
\* rewritten the file before its handler unlocks.
C9_FileInStep ==
  movieMutex = NoOwner =>
    C9_Lines(csvFile.data, <<>>) = [i \in 1..Len(movieList) |-> C9_Line(movieList[i])]

\* An unlocked catalog of two records after a removal and a later create;
\* the file has been written.
C9_Witness ==
  /\ movieMutex = NoOwner
  /\ csvFile.exists
  /\ Len(movieList) = 2
  /\ movieList[1].id = 2
  /\ \A c \in Clients : pc[c] \notin {"store", "unlock"}

\* A text field without the field delimiter and without a line break.
C10_Plain(text) == \A j \in 1..Len(text) : text[j] \notin {",", "\n"}

\* C10: for every catalog whose title, director and genres hold no ',' and
\* no line break, records with an empty text field included, saving it and
\* loading the file into an empty catalog gives the same records.
C10_RoundTrip ==
  (/\ rtPhase = "loaded"
   /\ \A i \in 1..Len(rtOrig) :
        C10_Plain(rtOrig[i].title) /\ C10_Plain(rtOrig[i].director)
          /\ C10_Plain(rtOrig[i].genres))
    => movieList = rtOrig

\* The texts the seven store calls write into response.
C11_StoreAnswers ==
  {"Registered", "Full", "GenreAdded", "NotFound", "Removed", "NotExists",
   "Empty", "Ids", "Infos", "Info", "NoneOfGenre", "OfGenre"}

\* C11: for every operation code it reads, the handler sends exactly one
\* response when the code is 1..7 (the text its store call wrote), exactly
\* one "invalid option" message when the code is another non-zero integer,
\* and nothing when the code is 0, after which it goes to close the
\* connection; the step that sends a response takes the handler back to
\* waiting for the next operation code.  unanswered counts codes read minus
\* responses sent: it is 1 from the read of a non-zero code to its send and
\* 0 everywhere else.
C11_OneResponsePerRequest ==
  /\ [](\A c \in Clients :
          /\ unanswered[c] =
               (IF pc[c] \in {"field", "lock", "store", "unlock", "send"} THEN 1 ELSE 0)
          /\ pc[c] = "send" =>
               (IF option[c] \in 1..7 THEN response[c].msg \in C11_StoreAnswers
                ELSE response[c].msg = "Invalid"))
  /\ [][\A c \in Clients :
          /\ unanswered'[c] < unanswered[c] =>
               (pc[c] = "send" /\ pc'[c] = "option" /\ unanswered'[c] = unanswered[c] - 1)
          /\ (pc[c] = "option" /\ pc'[c] = "close") => unanswered'[c] = 0]_vars

\* The handler is about to answer an unknown code, after an earlier request
\* has been answered.
C11_Witness ==
  \E c \in Clients :
    /\ pc[c] = "send" /\ option[c] \notin 0..7
    /\ response[c].msg = "Invalid"
    /\ unanswered[c] = 1 /\ nreqs >= 2

\* C12: remove and addGenre with an id no record of the catalog has answer
\* "not found" (with that id) and leave the catalog (count, order, every
\* field of every record) and movies.csv as they were; the handler with
\* such an answer is on its way to send it and wait for the next option.
C12_NotFoundChangesNothing ==
  \A c \in Clients :
    /\ (Called(c) /\ option[c] \in {2, 3} /\ args[c].id \notin Ids(pre.list)) =>
         /\ movieList = pre.list
         /\ csvFile = pre.file
         /\ response[c].msg = (IF option[c] = 2 THEN "NotFound" ELSE "NotExists")
         /\ response[c].id = args[c].id
    /\ response[c].msg \in {"NotFound", "NotExists"} => pc[c] \in {"unlock", "send"}

\* remove(2) has found a catalog that holds only record 1.
C12_Witness ==
  \E c \in Clients :
    /\ Called(c) /\ option[c] = 3 /\ args[c].id = 2
    /\ Ids(pre.list) = {1}
    /\ response[c].msg = "NotExists"

\* C13: in every reachable state every record of the catalog has a
\* non-empty genres string, whatever the clients send to create and addGenre.
C13_GenresNeverEmpty ==
  \A i \in 1..Len(movieList) : movieList[i].genres # <<>>

\* The store call handler c has made is a create, remove or addGenre that
\* finds what it needs: room for the create, the record for the others.
C14_Mutates(c) ==
  \/ option[c] = 1 /\ Len(pre.list) < MAX_MOVIES
  \/ option[c] \in {2, 3} /\ args[c].id \in Ids(pre.list)

\* C14: when movies.csv cannot be opened for writing during a create,
\* remove or addGenre that otherwise succeeds, the catalog and the response
\* are exactly those of the same call with a writable file (the create has
\* added its record, the remove has dropped one, each answers success) and
\* the file is as it was; the handler then releases the mutex, sends the
\* response and waits for the next operation code.
C14_SaveFailureKeepsMutation ==
  /\ [](\A c \in Clients :
          (Called(c) /\ ~pre.fopenOk /\ C14_Mutates(c)) =>
            LET ok == StoreCall(option[c], args[c], pre.list, pre.file, TRUE) IN
            /\ movieList = ok.list
            /\ response[c] = ok.response
            /\ csvFile = pre.file
            /\ movieList # pre.list \/ option[c] = 2
            /\ option[c] = 1 =>
                 (Len(movieList) = Len(pre.list) + 1 /\ response[c].msg = "Registered")
            /\ option[c] = 2 => response[c].msg = "GenreAdded"
            /\ option[c] = 3 =>
                 (Len(movieList) = Len(pre.list) - 1 /\ response[c].msg = "Removed"))
  /\ \A c \in Clients :
       (Called(c) /\ ~pre.fopenOk /\ C14_Mutates(c))
         ~> (pc[c] = "option" /\ movieMutex # c /\ unanswered[c] = 0)

\* A remove whose save failed, on a catalog whose record a create with a
\* failed save left: the file was never written.
C14_Witness ==
  \E c \in Clients :
    /\ Called(c) /\ ~pre.fopenOk /\ option[c] = 3
    /\ pre.list # <<>> /\ ~pre.file.exists
    /\ movieList = <<>> /\ ~csvFile.exists
    /\ response[c].msg = "Removed"

\* C15: no gap-filling.  In any sequence of creates and removes the id a
\* create assigns (the id of the record it appends and of its answer) is
\* strictly greater than the id of every record in the catalog at that
\* moment; so an id freed by a removal comes back only when no record with
\* a larger id is left.
C15_NoGapFilling ==
  \A c \in Clients :
    (Called(c) /\ option[c] = 1 /\ Len(pre.list) < MAX_MOVIES) =>
      /\ Len(movieList) = Len(pre.list) + 1
      /\ movieList[Len(movieList)].id = response[c].id
      /\ \A i \in 1..Len(pre.list) : response[c].id > pre.list[i].id

\* A create on a catalog from which record 1 has been removed while a later
\* record is still there: the freed id 1 is not given out.
C15_Witness ==
  \E c \in Clients :
    /\ Called(c) /\ option[c] = 1
    /\ pre.list # <<>> /\ 1 \notin Ids(pre.list)
    /\ response[c].msg = "Registered" /\ response[c].id # 1
    /\ 1 \notin Ids(movieList)

\* C16: the create/find/remove scenario, for any field values: a create on
\* an empty catalog answers with id 1; a following findById of that id
\* reports exactly the title, director, year and genres given to the
\* create; the remove of that id succeeds, and after it findById of the id
\* answers "not found".
C16_Scenario ==
  /\ rtPhase = "sc_created" =>
       (response[1].msg = "Registered" /\ response[1].id = 1 /\ args[1].id = 1)
  /\ rtPhase = "sc_found" =>
       /\ response[1].msg = "Info"
       /\ response[1].id = 1
       /\ response[1].rows =
            <<[id |-> 1, title |-> args[1].title, director |-> args[1].director,
               year |-> args[1].year, genres |-> args[1].genres]>>
  /\ rtPhase = "sc_removed" => (response[1].msg = "Removed" /\ response[1].id = 1)
  /\ rtPhase = "sc_gone" =>
       (response[1].msg = "NotFound" /\ response[1].id = 1 /\ response[1].rows = <<>>)

\* The scenario has run to its end for a movie with two genres.
C16_Witness ==
  /\ rtPhase = "sc_gone"
  /\ args[1].year = 2010 /\ args[1].genres = <<"a", ";", "b">>
  /\ response[1].msg = "NotFound"
  /\ movieList = <<>>

\* g occurs in h as a run of consecutive characters.
C17_Contains(h, g) ==
  \E i \in 0..Len(h) : \E j \in i..Len(h) : SubSeq(h, i + 1, j) = g

\* rows are the movies of list at the positions in hits, in list order.
C17_InOrder(rows, list, hits) ==
  /\ Len(rows) = Cardinality(hits)
  /\ \E f \in [1..Len(rows) -> hits] :
       /\ \A k \in 1..Len(rows) : rows[k] = list[f[k]]
       /\ \A k, l \in 1..Len(rows) : k < l => f[k] < f[l]

\* C17: listByGenre(g) on a catalog that is not empty reports exactly the
\* records whose genres string contains g as a contiguous substring, each
\* once and in catalog order (so "Com" finds both "Comedy;Drama" and
\* "Romantic-Comedy"), and the no-match message when there is none.
C17_GenreSubstring ==
  (rtPhase = "q_listed" /\ movieList # <<>>) =>
    LET hits == {i \in 1..Len(movieList) :
                   C17_Contains(movieList[i].genres, args[1].genre)}
    IN IF hits = {}
       THEN response[1].msg = "NoneOfGenre" /\ response[1].rows = <<>>
       ELSE /\ response[1].msg = "OfGenre"
            /\ C17_InOrder(response[1].rows, movieList, hits)

\* "Com" asked of the catalog <<"Romantic-Comedy", "Comedy;Drama">>: both
\* movies are reported, in that order.
C17_Witness ==
  /\ rtPhase = "q_listed"
  /\ args[1].genre = <<"C", "o", "m">>
  /\ Len(movieList) = 2
  /\ Len(movieList[1].genres) = 15 /\ Len(movieList[2].genres) = 12
  /\ response[1].msg = "OfGenre"
  /\ response[1].rows = movieList

\* C18: a handler leaves its loop only at the read of the operation code
\* (the read failed, the peer closed, or the code was 0); every handler
\* that has left the loop closes its socket, exactly once, and ends; the
\* socket of a handler still in the loop has not been closed by it.
C18_ClosedOnceAtExit ==
  /\ [](\A c \in Clients : closes[c] = (IF pc[c] = "done" THEN 1 ELSE 0))
  /\ [][\A c \in Clients :
          /\ (pc'[c] = "close" /\ pc[c] # "close") => pc[c] = "option"
          /\ closes'[c] # closes[c] => (pc[c] = "close" /\ pc'[c] = "done")
          /\ pc[c] = "done" => pc'[c] = "done"]_vars
  /\ \A c \in Clients : pc[c] = "close" ~> (pc[c] = "done" /\ closes[c] = 1)

\* One handler has answered a request, left its loop and closed its socket
\* while another is still in its loop.
C18_Witness ==
  \E c, d \in Clients :
    /\ pc[c] = "done" /\ closes[c] = 1
    /\ pc[d] \in {"field", "lock", "store", "unlock", "send"} /\ closes[d] = 0
    /\ nreqs >= 2

\* C19: no starvation by a stalled peer.  Nothing forces a peer to send,
\* so a handler may wait at a field read for ever; it owns no mutex there.
\* Under fair scheduling every handler that has read a complete request
\* (it is at pthread_mutex_lock) eventually owns the mutex and eventually
\* has sent its response, whatever the other connections do, a connection
\* stalled in the middle of a request included.
C19_NoStarvation ==
  /\ [](\A d \in Clients : pc[d] = "field" => movieMutex # d)
  /\ \A c \in Clients : pc[c] = "lock" ~> movieMutex = c
  /\ \A c \in Clients : pc[c] = "lock" ~> (pc[c] = "option" /\ unanswered[c] = 0)
  /\ \A c, d \in Clients :
       (c # d /\ <>[](pc[d] = "field")) => (pc[c] = "lock" ~> pc[c] = "option")

\* One connection is in the middle of a create (the title read, the other
\* fields not yet) while another handler, its request complete, has made its
\* store call.
C19_Witness ==
  \E c, d \in Clients :
    /\ c # d
    /\ pc[d] = "field" /\ option[d] = 1 /\ nread[d] = 1 /\ peer[d] = "open"
    /\ pc[c] = "unlock" /\ movieMutex = c

\* C20: a handler never owns the mutex while it waits on a socket read: a
\* handler at the read of the operation code or of a field does not own it,
\* and a handler owns it only from pthread_mutex_lock, just before its store
\* call, until the unlock that follows the return of the call (and of its
\* save); it does not own it when it sends the response, closes or has ended.
C20_NoLockWhileReading ==
  /\ movieMutex \in Clients \cup {NoOwner}
  /\ \A c \in Clients :
       /\ pc[c] \in {"option", "field"} => movieMutex # c
       /\ movieMutex = c => pc[c] \in {"store", "unlock"}
       /\ pc[c] \in {"lock", "send", "close", "done"} => movieMutex # c

\* A handler waits for the genres of a create while another is inside its
\* store call.
C20_Witness ==
  \E c, d \in Clients :
    /\ pc[c] = "field" /\ option[c] = 1 /\ nread[c] = 3
    /\ pc[d] = "store" /\ movieMutex = d

\* How often record m occurs in list.
C21_Count(list, m) == Cardinality({k \in 1..Len(list) : list[k] = m})

\* C21: removal by swap-with-last.  A remove(id) that finds the id, at
\* position i (the first that holds it) of a catalog of n records, answers
\* success and leaves n - 1 records: when i was not the last position,
\* position i holds the record that was last; every other remaining
\* position holds what it held; and the records are those of before minus
\* one occurrence of the removed one.
C21_SwapWithLast ==
  LET n    == Len(rtOrig)
      hits == {k \in 1..n : rtOrig[k].id = args[1].id}
  IN (rtPhase = "rm_done" /\ hits # {}) =>
       LET i == CHOOSE k \in hits : \A h \in hits : k <= h IN
       /\ response[1].msg = "Removed"
       /\ Len(movieList) = n - 1
       /\ i < n => movieList[i] = rtOrig[n]
       /\ \A k \in 1..(n - 1) : k # i => movieList[k] = rtOrig[k]
       /\ \A m \in RmRecords :
            C21_Count(movieList, m) =
              C21_Count(rtOrig, m) - (IF m = rtOrig[i] THEN 1 ELSE 0)

\* The first of three different movies has been removed: the third is now
\* first, the second stayed.
C21_Witness ==
  /\ rtPhase = "rm_done"
  /\ Len(rtOrig) = 3
  /\ rtOrig[1].id = args[1].id
  /\ rtOrig[2].id # rtOrig[1].id /\ rtOrig[3].id # rtOrig[1].id
  /\ rtOrig[2] # rtOrig[3]
  /\ movieList = <<rtOrig[3], rtOrig[2]>>

\* The operation table: the fields of each code, in order.
C22_Table(opt) ==
  IF opt = 1 THEN <<"title", "director", "year", "genres">>
  ELSE IF opt = 2 THEN <<"id", "newGenre">>
  ELSE IF opt \in {3, 6} THEN <<"id">>
  ELSE IF opt = 7 THEN <<"genre">>
  ELSE <<>>

\* C22: before its store call the handler has received exactly the fields
\* of the operation table, in order: four for code 1 (title, director,
\* year, genres), two for code 2 (id, genre), one for codes 3 and 6 (id) and
\* for code 7 (genre), none for codes 4 and 5; while it still reads it has
\* received a proper prefix of them; an unknown code makes no store call
\* and is answered with no field received, so the handler waiting for an
\* operation code has no field of an earlier request left to read.
C22_FieldsOfTheTable ==
  \A c \in Clients :
    /\ pc[c] \in {"lock", "store", "unlock"} =>
         (option[c] \in 1..7 /\ consumed[c] = C22_Table(option[c]))
    /\ pc[c] = "send" =>
         consumed[c] = (IF option[c] \in 1..7 THEN C22_Table(option[c]) ELSE <<>>)
    /\ pc[c] = "field" =>
         /\ Len(consumed[c]) < Len(C22_Table(option[c]))
         /\ consumed[c] = SubSeq(C22_Table(option[c]), 1, Len(consumed[c]))
    /\ pc[c] \in {"option", "close", "done"} => consumed[c] = <<>>

\* One handler is about to call addGenre with its two fields received;
\* another answers an unknown code without having read a field.
C22_Witness ==
  \E c, d \in Clients :
    /\ pc[c] = "lock" /\ option[c] = 2 /\ consumed[c] = <<"id", "newGenre">>
    /\ pc[d] = "send" /\ option[d] = 9 /\ consumed[d] = <<>>

\* C23: in every reachable state, the state right after the load of a
\* movies.csv with any number of lines included, the catalog holds between
\* 0 and MAX_MOVIES records; and no operation evicts a record to make
\* room: a create leaves every record it found where it was, whether it
\* adds one or is refused.
C23_CountWithinCapacity ==
  /\ Len(movieList) \in 0..MAX_MOVIES
  /\ Len(pre.list) \in 0..MAX_MOVIES
  /\ \A c \in Clients :
       (Called(c) /\ option[c] = 1) =>
         /\ Len(movieList) >= Len(pre.list)
         /\ SubSeq(movieList, 1, Len(pre.list)) = pre.list

\* The server started on a file with more records than MAX_MOVIES, loaded
\* MAX_MOVIES of them, and has refused a create: the file is still the one
\* it found.
C23_Witness ==
  \E c \in Clients :
    /\ Called(c) /\ option[c] = 1 /\ response[c].msg = "Full"
    /\ LineCount(csvFile) > MAX_MOVIES
    /\ Len(movieList) = MAX_MOVIES

\* C24: the queries (codes 4, 5, 6 and 7) leave the catalog (count, order,
\* every field of every record) and movies.csv exactly as they found them,
\* whatever the catalog and the argument; an unknown code and the
\* terminate code make no store call at all, so a handler between lock and
\* unlock always serves a code from 1 to 7.
C24_QueriesChangeNothing ==
  \A c \in Clients :
    /\ (Called(c) /\ option[c] \in 4..7) =>
         (movieList = pre.list /\ csvFile = pre.file)
    /\ pc[c] \in {"lock", "store", "unlock"} => option[c] \in 1..7
    /\ option[c] \notin 1..7 => pc[c] \in {"option", "send", "close", "done"}

\* listByGenre has found no match in a catalog that holds a record, and the
\* record is still there.
C24_Witness ==
  \E c \in Clients :
    /\ Called(c) /\ option[c] = 7
    /\ pre.list # <<>>
    /\ response[c].msg = "NoneOfGenre"
    /\ movieList = pre.list /\ csvFile = pre.file /\ csvFile.exists

====
